---- MODULE Spec2Model ----
(***************************************************************************)
(* Model of hd_preprocess.py: the per-spectrum filter kernel, the per-file *)
(* processor, the joblib fan-out / gather / charge filter / sort of        *)
(* load_process_spectra_parallel, and the checkpoint pair.                 *)
(*                                                                         *)
(* Numbers.  m/z values of fragment peaks and precursors are integers (Da).*)
(* Masses that the code writes as decimal literals are kept exactly, in    *)
(* micro-Dalton.  Intensities are fixed-point with one decimal (10 = 1.0); *)
(* normalised intensities are fixed-point with two decimals (100 = 1.0).   *)
(* min_intensity is a percentage (1 = 0.01).                               *)
(***************************************************************************)
EXTENDS Integers, Sequences, FiniteSets, TLC

VARIABLES
    config,             \* the Config object (runtime parameters)
    pc,                 \* position of the caller / coordinator
    intensity,          \* get_intensity_mask: argument
    mask,               \* get_intensity_mask: returned mask
    top_intensity_idx,  \* get_intensity_mask: indices picked by argpartition
    spectra_list,       \* preprocess_read_spectra_list: argument
    iterations,         \* preprocess_read_spectra_list: the loop iterations made
    returned_list,      \* preprocess_read_spectra_list: returned list
    input_files,        \* the files glob finds, in glob order
    task,               \* joblib: state of the task of each file
    task_result,        \* joblib: list returned by each finished task
    completed,          \* joblib: file indices in the order the tasks finished
    spectra_meta_df,    \* returned metadata table (sequence of rows)
    spectra_mz,         \* returned m/z array
    spectra_intensity,  \* returned intensity array
    ckp_parquet_file,   \* contents of <checkpoint>_meta.ckp, None when absent
    ckp_hvs_file,       \* contents of <checkpoint>_hvs.ckp, None when absent
    saving,             \* save_checkpoint in progress: the pair being saved
    saves,              \* number of save_checkpoint calls made
    restored            \* what load_checkpoint returned

filterVars == <<intensity, mask, top_intensity_idx>>
preVars == <<spectra_list, iterations, returned_list>>
poolVars == <<input_files, task, task_result, completed>>
dataVars == <<spectra_meta_df, spectra_mz, spectra_intensity>>
ckpVars == <<ckp_parquet_file, ckp_hvs_file, saving, saves, restored>>

vars == <<config, pc, filterVars, preVars, poolVars, dataVars, ckpVars>>

----------------------------------------------------------------------------
(* Bounds of the explored inputs *)

MaxLen == 3             \* longest intensity array drawn for get_intensity_mask
MaxPeaks == 2           \* longest peak list drawn for preprocess_read_spectra_list
MaxFiles == 2           \* most input files
MaxSaves == 3           \* most save_checkpoint calls

----------------------------------------------------------------------------
(* Values *)

\* An Optional[...] parameter that is left unset
None == -1

\* Result of 0.0 / 0.0 in float32
NaN == -7777

IntensityValues == {0, 10, 40}

MzValues == 1..4

\* (precursor_charge, precursor_mz) pairs of the spectra drawn
Precursors == {<<1, 4>>, <<2, 2>>}

Abs(x) == IF x < 0 THEN -x ELSE x

Indices(s) == 1..Len(s)

SeqMax(s) == CHOOSE m \in {s[i] : i \in Indices(s)} : \A i \in Indices(s) : s[i] <= m

RECURSIVE BoolIndexFrom(_, _, _)
BoolIndexFrom(s, m, i) ==
    IF i > Len(s) THEN <<>>
    ELSE (IF m[i] THEN <<s[i]>> ELSE <<>>) \o BoolIndexFrom(s, m, i + 1)

\* numpy boolean-mask indexing: arr[mask]
BoolIndex(s, m) == BoolIndexFrom(s, m, 1)

\* all sequences over S of length lo..hi
SeqsOf(S, lo, hi) == UNION {[1..n -> S] : n \in lo..hi}

----------------------------------------------------------------------------
(* get_intensity_mask *)

\* a partition of intensity instead of -intensity: the k smallest values
ArgPartitionBottom(a, k) ==
    {S \in SUBSET Indices(a) :
        /\ Cardinality(S) = k
        /\ \A i \in S : \A j \in Indices(a) \ S : a[i] <= a[j]}

\* bn.argpartition(-intensity, k)[:k]: some k indices holding the k largest
\* values; which of several equal values is taken is not specified.
ArgPartitionTop(a, k) ==
    {S \in SUBSET Indices(a) :
        /\ Cardinality(S) = k
        /\ \A i \in S : \A j \in Indices(a) \ S : a[i] >= a[j]}

TopIntensityIdx(a, max_num_peaks) ==
    IF Len(a) > max_num_peaks THEN ArgPartitionTop(a, max_num_peaks)
    ELSE {Indices(a)}

\* max over the selected subset (raises ValueError on an empty subset)
TopMax(a, top) == SeqMax([i \in 1..Cardinality(top) |->
                    a[CHOOSE j \in top : Cardinality({l \in top : l < j}) = i - 1]])

\* get_intensity_mask that thresholds every peak, not only the selected ones
get_intensity_mask_unselected(a, min_intensity, top) ==
    [i \in Indices(a) |-> 100 * a[i] > min_intensity * TopMax(a, top)]

\* the mask for one choice of top_intensity_idx; min_intensity in percent
get_intensity_mask(a, min_intensity, top) ==
    [i \in Indices(a) |-> i \in top /\ 100 * a[i] > min_intensity * TopMax(a, top)]

----------------------------------------------------------------------------
(* Spectrum records and the filter kernel *)

\* spectrum[0], [1], [2], [3], [6], [7] of the parser's positional record
Spectrum(b, c, pmz, id, mz, inten) ==
    [bucket |-> b, precursor_charge |-> c, precursor_mz |-> pmz,
     identifier |-> id, mz |-> mz, intensity |-> inten]

hydrogen_mass == 1007940        \* micro-Da
adduct_mass == 1007825          \* micro-Da
cluster_width == 10005079       \* units of 1e-7

Max2(a, b) == IF a >= b THEN a ELSE b

\* round(neutral_mass / cluster_width) // interval_width
_precursor_to_interval(mz, charge, interval_width) ==
    LET neutral_mass == (mz * 1000000 - hydrogen_mass) * Max2(Abs(charge), 1)
    IN  ((20 * neutral_mass + cluster_width) \div (2 * cluster_width)) \div interval_width

_get_mz_mask(mz, min_mz, max_mz) ==
    [i \in Indices(mz) |-> ~(mz[i] < min_mz \/ mz[i] > max_mz)]

\* spectrum[6][0] / spectrum[6][-1] on an empty array raise IndexError
SetMzRangeRaises(spectrum, min_mz, max_mz) ==
    /\ Len(spectrum.mz) = 0
    /\ (min_mz = None) # (max_mz = None)

_set_mz_range(spectrum, min_mz, max_mz) ==
    IF min_mz = None /\ max_mz = None THEN spectrum
    ELSE LET lo == IF min_mz = None THEN spectrum.mz[1] ELSE min_mz
             hi == IF max_mz = None THEN spectrum.mz[Len(spectrum.mz)] ELSE max_mz
             m  == _get_mz_mask(spectrum.mz, lo, hi)
         IN  [spectrum EXCEPT !.mz = BoolIndex(spectrum.mz, m),
                              !.intensity = BoolIndex(spectrum.intensity, m)]

\* _check_spectrum_valid that forgets the m/z range
_check_spectrum_valid_count_only(spectrum_mz, min_peaks, min_mz_range) ==
    Len(spectrum_mz) >= min_peaks

_check_spectrum_valid(spectrum_mz, min_peaks, min_mz_range) ==
    /\ Len(spectrum_mz) >= min_peaks
    /\ spectrum_mz[Len(spectrum_mz)] - spectrum_mz[1] >= min_mz_range

\* |remove_mz - mz| > tol for every remove_mz = neutral_mass / charge + adduct_mass,
\* charge = precursor charge .. 1 (isotope 0); compared after multiplying by charge
mass_diff_mask(mz, precursor_mz, precursor_charge, tol) ==
    LET neutral_mass == (precursor_mz * 1000000 - adduct_mass) * precursor_charge
    IN  [i \in Indices(mz) |->
            \A charge \in 1..precursor_charge :
                Abs(neutral_mass + charge * adduct_mass - charge * mz[i] * 1000000)
                    > charge * tol]

_remove_precursor_peak(spectrum, fragment_tol_mass) ==
    LET m == mass_diff_mask(spectrum.mz, spectrum.precursor_mz,
                            spectrum.precursor_charge, fragment_tol_mass)
    IN  [spectrum EXCEPT !.mz = BoolIndex(spectrum.mz, m),
                         !.intensity = BoolIndex(spectrum.intensity, m)]

\* _filter_intensity for one choice of argpartition
_filter_intensity(spectrum, min_intensity, top) ==
    LET m == get_intensity_mask(spectrum.intensity, min_intensity, top)
    IN  [spectrum EXCEPT !.mz = BoolIndex(spectrum.mz, m),
                         !.intensity = BoolIndex(spectrum.intensity, m)]

FilterTopChoices(spectrum, max_num_peaks) ==
    TopIntensityIdx(spectrum.intensity,
        IF max_num_peaks = None THEN Len(spectrum.intensity) ELSE max_num_peaks)

ISqrt(n) == CHOOSE r \in 0..n : r * r <= n /\ (r + 1) * (r + 1) > n

\* log1p(x) / log(2) on the intensity values of the model, one decimal
Log1pBase2 == [v \in IntensityValues |-> CASE v = 0 -> 0 [] v = 10 -> 10 [] v = 40 -> 23]

\* position of peak i in argsort(x)[::-1] (argsort of a short array is stable)
DescendingRank(x, i) ==
    Cardinality({j \in Indices(x) : x[j] > x[i] \/ (x[j] = x[i] /\ j > i)})

ScaleRaises(x, scaling, max_rank) ==
    /\ scaling = "rank"
    /\ max_rank # None
    /\ max_rank < Len(x)

_scale_intensity(x, scaling, max_rank) ==
    CASE scaling = "root" -> [i \in Indices(x) |-> ISqrt(10 * x[i])]
      [] scaling = "log"  -> [i \in Indices(x) |-> Log1pBase2[x[i]]]
      [] scaling = "rank" ->
            LET r == IF max_rank = None THEN Len(x) ELSE max_rank
            IN  [i \in Indices(x) |-> 10 * (r - DescendingRank(x, i))]
      [] OTHER -> x

RECURSIVE SumSquares(_)
SumSquares(x) == IF Len(x) = 0 THEN 0 ELSE Head(x) * Head(x) + SumSquares(Tail(x))

\* x / np.linalg.norm(x), two decimals; a zero norm gives 0/0
_norm_intensity(x) ==
    LET n2 == SumSquares(x)
    IN  IF n2 = 0 THEN [i \in Indices(x) |-> NaN]
        ELSE [i \in Indices(x) |->
                CHOOSE q \in 0..100 : /\ q * q * n2 <= 10000 * x[i] * x[i]
                                      /\ (q + 1) * (q + 1) * n2 > 10000 * x[i] * x[i]]

\* a pad that is one slot short
PadShort(a, pad_size) == a \o [i \in 1..(pad_size - 1) |-> -1]

\* np.pad(a, (0, pad_size), 'constant', constant_values=-1)
Pad(a, pad_size) == a \o [i \in 1..pad_size |-> -1]

----------------------------------------------------------------------------
(* preprocess_read_spectra_list *)

\* What one iteration of the loop leaves behind: how it ended ("kept", "invalid"
\* = appended to invalid_spec_list, "raise" = an exception left the loop),
\* spectra_list[i] as mutated so far, the m/z arrays handed to
\* _check_spectrum_valid in order, and the squared norm of the vector handed to
\* _norm_intensity (None when that step was not reached).
Iteration(status, spectrum, checked, norm_sq) ==
    [status |-> status, spectrum |-> spectrum, checked |-> checked, norm_sq |-> norm_sq]

\* lines 483-496: scale, normalise, bucket, pad
ScaleNormBucketPad(s, checked, cfg) ==
    IF ScaleRaises(s.intensity, cfg.scaling, cfg.max_peaks_used)
    THEN Iteration("raise", s, checked, None)
    ELSE LET scaled == _scale_intensity(s.intensity, cfg.scaling, cfg.max_peaks_used)
             normed == [s EXCEPT !.intensity = _norm_intensity(scaled)]
             bucketed == [normed EXCEPT !.bucket =
                            _precursor_to_interval(s.precursor_mz, s.precursor_charge,
                                                   cfg.mz_interval)]
             pad_size == cfg.max_peaks_used - Len(s.mz)
         IN  IF cfg.max_peaks_used = None
             THEN Iteration("raise", bucketed, checked, SumSquares(scaled))
             ELSE Iteration("kept",
                            [bucketed EXCEPT !.mz = Pad(bucketed.mz, pad_size),
                                             !.intensity = Pad(bucketed.intensity, pad_size)],
                            checked, SumSquares(scaled))

\* lines 476-481, then the rest of the iteration
FilterAndRest(s, checked, cfg) ==
    IF cfg.min_intensity # None \/ cfg.max_peaks_used # None
    THEN LET min_intensity == IF cfg.min_intensity = None THEN 0 ELSE cfg.min_intensity
         IN  {IF top = {}
              THEN Iteration("raise", s, checked, None)
              ELSE LET f == _filter_intensity(s, min_intensity, top)
                       c == Append(checked, f.mz)
                   IN  IF ~_check_spectrum_valid(f.mz, cfg.min_peaks, cfg.min_mz_range)
                       THEN Iteration("invalid", f, c, None)
                       ELSE ScaleNormBucketPad(f, c, cfg)
              : top \in FilterTopChoices(s, cfg.max_peaks_used)}
    ELSE {ScaleNormBucketPad(s, checked, cfg)}

\* lines 463-474, then the rest of the iteration
LoopBody(spectrum, cfg) ==
    IF SetMzRangeRaises(spectrum, cfg.min_mz, cfg.max_mz)
    THEN {Iteration("raise", spectrum, <<>>, None)}
    ELSE LET r == _set_mz_range(spectrum, cfg.min_mz, cfg.max_mz)
         IN  IF ~_check_spectrum_valid(r.mz, cfg.min_peaks, cfg.min_mz_range)
             THEN {Iteration("invalid", r, <<r.mz>>, None)}
             ELSE IF cfg.remove_precursor_tol # None
                  THEN LET q == _remove_precursor_peak(r, cfg.remove_precursor_tol)
                       IN  IF ~_check_spectrum_valid(q.mz, cfg.min_peaks, cfg.min_mz_range)
                           THEN {Iteration("invalid", q, <<r.mz, q.mz>>, None)}
                           ELSE FilterAndRest(q, <<r.mz, q.mz>>, cfg)
                  ELSE FilterAndRest(r, <<r.mz>>, cfg)

\* the loop over spectra_list from position i: every run it can take, as the
\* sequence of iterations made (an iteration that raises is the last one)
RECURSIVE LoopRuns(_, _, _)
LoopRuns(list, i, cfg) ==
    IF i > Len(list) THEN {<<>>}
    ELSE UNION {IF it.status = "raise" THEN {<<it>>}
                ELSE {<<it>> \o rest : rest \in LoopRuns(list, i + 1, cfg)}
                : it \in LoopBody(list[i], cfg)}

Raised(run) == \E i \in Indices(run) : run[i].status = "raise"

RECURSIVE KeptOf(_)
KeptOf(run) ==
    IF Len(run) = 0 THEN <<>>
    ELSE (IF Head(run).status = "kept" THEN <<Head(run).spectrum>> ELSE <<>>)
         \o KeptOf(Tail(run))

\* lines 499-504: the list returned by a run that did not raise
preprocess_read_spectra_list(run) == KeptOf(run)

----------------------------------------------------------------------------
(* load_process_single and load_process_spectra_parallel *)

\* load_process_single that swallows a failure and reports no spectra
load_process_single_skip(file, cfg) ==
    IF ~file.parse_ok THEN {[failed |-> FALSE, result |-> <<>>]}
    ELSE {[failed |-> FALSE,
           result |-> IF Raised(run) THEN <<>> ELSE preprocess_read_spectra_list(run)] :
            run \in LoopRuns(file.spectra, 1, cfg)}

\* every way the task of one file can end: the parser raises on a malformed
\* file, preprocessing raises, or the list of kept spectra is returned
load_process_single(file, cfg) ==
    IF ~file.parse_ok THEN {[failed |-> TRUE, result |-> <<>>]}
    ELSE {[failed |-> Raised(run),
           result |-> IF Raised(run) THEN <<>> ELSE preprocess_read_spectra_list(run)] :
            run \in LoopRuns(file.spectra, 1, cfg)}

RECURSIVE Flatten(_)
Flatten(lists) == IF Len(lists) = 0 THEN <<>> ELSE Head(lists) \o Flatten(Tail(lists))

\* a gather that takes the results in the order the tasks finished
GatherAsCompleted(results, order) == Flatten([k \in Indices(order) |-> results[order[k]]])

\* joblib returns the results in the order the tasks were submitted
Gather(results, order) == Flatten([i \in Indices(results) |-> results[i]])

\* np.array(list of rows): no row gives a 1-dimensional array of shape (0,)
NpArray(rows) == [ndim |-> IF Len(rows) = 0 THEN 1 ELSE 2, rows |-> rows]

\* astype(np.int8)
Int8(x) == ((x + 128) % 256) - 128

MetaRow(s) ==
    [bucket |-> s.bucket, precursor_charge |-> Int8(s.precursor_charge),
     precursor_mz |-> s.precursor_mz, identifier |-> s.identifier]

InSeq(x, q) == \E i \in Indices(q) : q[i] = x

\* Series.unique().tolist(): distinct values in order of first appearance
RECURSIVE Unique(_)
Unique(q) ==
    IF Len(q) = 0 THEN <<>>
    ELSE LET front == Unique(SubSeq(q, 1, Len(q) - 1))
         IN  IF InSeq(q[Len(q)], front) THEN front ELSE Append(front, q[Len(q)])

\* arr[idx] with an integer index array
Take(rows, idx) == [k \in Indices(idx) |-> rows[idx[k]]]

\* the order relation of np.lexsort((a, b)): b is the primary key, a breaks ties,
\* and equal rows keep their order
LexBefore(a, b, i, j) ==
    \/ b[i] < b[j]
    \/ b[i] = b[j] /\ a[i] < a[j]
    \/ b[i] = b[j] /\ a[i] = a[j] /\ i < j

LexSort(a, b) ==
    [k \in Indices(a) |->
        CHOOSE i \in Indices(a) :
            Cardinality({j \in Indices(a) : LexBefore(a, b, j, i)}) = k - 1]

\* a sort that reorders the table and leaves the arrays as they were
sort_spectra_meta_data_table_only(meta, mz, inten) ==
    LET idx == LexSort([i \in Indices(meta) |-> meta[i].precursor_charge],
                       [i \in Indices(meta) |-> meta[i].bucket])
    IN  [meta |-> Take(meta, idx), mz |-> mz, intensity |-> inten]

sort_spectra_meta_data(meta, mz, inten) ==
    LET idx == LexSort([i \in Indices(meta) |-> meta[i].precursor_charge],
                       [i \in Indices(meta) |-> meta[i].bucket])
    IN  [meta |-> Take(meta, idx),
         mz |-> [mz EXCEPT !.rows = Take(mz.rows, idx)],
         intensity |-> [inten EXCEPT !.rows = Take(inten.rows, idx)]]

\* lines 567-587: the arrays and the table built from the gathered results
BuildDataset(read_spectra_list) ==
    [meta |-> [i \in Indices(read_spectra_list) |-> MetaRow(read_spectra_list[i])],
     mz |-> NpArray([i \in Indices(read_spectra_list) |-> read_spectra_list[i].mz]),
     intensity |-> NpArray([i \in Indices(read_spectra_list) |->
                                read_spectra_list[i].intensity])]

\* lines 590-593 raise IndexError when arr[valid_charge_idx, :] meets a
\* 1-dimensional array
ChargeFilterRaises(d, cluster_charges) ==
    Len(cluster_charges) # 0 /\ d.mz.ndim = 1

\* a filter that lets every row through
ChargeFilterKeepAll(d, cluster_charges) == d

\* lines 589-593: rows whose charge is in cluster_charges
ChargeFilter(d, cluster_charges) ==
    IF Len(cluster_charges) # 0
    THEN LET valid_charge_idx ==
                [i \in Indices(d.meta) |-> InSeq(d.meta[i].precursor_charge, cluster_charges)]
         IN  [meta |-> BoolIndex(d.meta, valid_charge_idx),
              mz |-> [d.mz EXCEPT !.rows = BoolIndex(d.mz.rows, valid_charge_idx)],
              intensity |-> [d.intensity EXCEPT
                                !.rows = BoolIndex(d.intensity.rows, valid_charge_idx)]]
    ELSE d

\* lines 594-595: an empty cluster_charges becomes the charges seen
ClusterChargesAfter(d, cluster_charges) ==
    IF Len(cluster_charges) # 0 THEN cluster_charges
    ELSE Unique([i \in Indices(d.meta) |-> d.meta[i].precursor_charge])

----------------------------------------------------------------------------
(* Parts of the state a specification does not use *)

FilterIdle == intensity = <<>> /\ mask = <<>> /\ top_intensity_idx = {}
PreIdle == spectra_list = <<>> /\ iterations = <<>> /\ returned_list = <<>>
PoolIdle == input_files = <<>> /\ task = <<>> /\ task_result = <<>> /\ completed = <<>>
DataIdle == spectra_meta_df = <<>> /\ spectra_mz = <<>> /\ spectra_intensity = <<>>
CkpIdle == /\ ckp_parquet_file = None /\ ckp_hvs_file = None
           /\ saving = None /\ saves = 0 /\ restored = <<>>

----------------------------------------------------------------------------
(* Specification of the intensity filter alone *)

FilterConfigs ==
    [min_intensity : {0, 1, 50}, max_peaks_used : 1..MaxLen]

InitFilter ==
    /\ config \in FilterConfigs
    /\ intensity \in SeqsOf(IntensityValues, 1, MaxLen)
    /\ pc = "call"
    /\ mask = <<>>
    /\ top_intensity_idx = {}
    /\ PreIdle /\ PoolIdle /\ DataIdle /\ CkpIdle

GetIntensityMask ==
    /\ pc = "call"
    /\ \E top \in TopIntensityIdx(intensity, config.max_peaks_used) :
        /\ top_intensity_idx' = top
        /\ mask' = get_intensity_mask(intensity, config.min_intensity, top)
    /\ pc' = "masked"
    /\ UNCHANGED <<config, intensity, preVars, poolVars, dataVars, ckpVars>>

NextFilter == GetIntensityMask

SpecFilter == InitFilter /\ [][NextFilter]_vars

----------------------------------------------------------------------------
(* Specification of preprocess_read_spectra_list *)

\* peak lists as the parser delivers them: m/z ascending, one intensity per m/z
PeakLists(maxlen) ==
    {p \in UNION {[1..n -> MzValues \X IntensityValues] : n \in 0..maxlen} :
        \A i \in 1..(Len(p) - 1) : p[i][1] < p[i + 1][1]}

RawSpectrum(pre, id, p) ==
    Spectrum(None, pre[1], pre[2], id,
             [i \in Indices(p) |-> p[i][1]], [i \in Indices(p) |-> p[i][2]])

\* a second spectrum of the list
Companion == RawSpectrum(<<1, 4>>, 2, <<(<<1, 10>>), (<<3, 40>>)>>)

MzRanges == {<<None, None>>, <<None, 3>>, <<2, 4>>}

\* (min_peaks, min_mz_range)
ValidityLimits == {<<1, 0>>, <<2, 0>>, <<2, 2>>}

PreConfigs ==
    {[min_peaks |-> vl[1], min_mz_range |-> vl[2], mz_interval |-> 1,
      min_mz |-> rg[1], max_mz |-> rg[2], remove_precursor_tol |-> tol,
      min_intensity |-> mi, max_peaks_used |-> mk, scaling |-> sc] :
        vl \in ValidityLimits, rg \in MzRanges, tol \in {None, 500000},
        mi \in {None, 1, 50}, mk \in {None, 1, 3}, sc \in {"off", "root", "log", "rank"}}

InitPre ==
    /\ config \in PreConfigs
    /\ \E pre \in Precursors, p \in PeakLists(MaxPeaks) :
            spectra_list = <<RawSpectrum(pre, 1, p), Companion>>
    /\ pc = "call"
    /\ iterations = <<>>
    /\ returned_list = <<>>
    /\ FilterIdle /\ PoolIdle /\ DataIdle /\ CkpIdle

\* one call: the loop runs, and either an exception leaves it or the kept
\* spectra are returned
Preprocess ==
    /\ pc = "call"
    /\ \E run \in LoopRuns(spectra_list, 1, config) :
        /\ iterations' = run
        /\ IF Raised(run)
           THEN pc' = "raised" /\ UNCHANGED returned_list
           ELSE pc' = "returned" /\ returned_list' = preprocess_read_spectra_list(run)
    /\ UNCHANGED <<config, spectra_list, filterVars, poolVars, dataVars, ckpVars>>

NextPre == Preprocess

SpecPre == InitPre /\ [][NextPre]_vars

----------------------------------------------------------------------------
(* Specification of load_process_spectra_parallel *)

\* the spectra a file can hold: K1, K2, K5 survive preprocessing with
\* (charge, bucket) = (1, 3), (2, 2), (2, 4) and different peaks; K4 has no
\* peaks
FilePeaks == <<(<<1, 40>>), (<<2, 10>>), (<<3, 10>>), (<<4, 40>>)>>

K1 == <<(<<1, 4>>), FilePeaks>>
K2 == <<(<<2, 2>>), FilePeaks>>
K5 == <<(<<2, 3>>), FilePeaks>>
K4 == <<(<<1, 4>>), <<>> >>

\* what a well-formed file can hold: nothing, one spectrum, or one of two pairs
FileContents == {<<>>, <<K1>>, <<K2>>, <<K5>>, <<K4>>, <<K5, K2>>, <<K1, K2>>}

ParsedFile(f, kinds) ==
    [parse_ok |-> TRUE,
     spectra |-> [k \in Indices(kinds) |->
                    RawSpectrum(kinds[k][1], 10 * f + k, kinds[k][2])]]

MalformedFile == [parse_ok |-> FALSE, spectra |-> <<>>]

Files(f) == {MalformedFile} \cup {ParsedFile(f, kinds) : kinds \in FileContents}

RECURSIVE DirectoriesOf(_)
DirectoriesOf(n) ==
    IF n = 0 THEN {<<>>}
    ELSE {Append(d, file) : d \in DirectoriesOf(n - 1), file \in Files(n)}

Directories == UNION {DirectoriesOf(n) : n \in 0..MaxFiles}

Configs ==
    {[min_peaks |-> 2, min_mz_range |-> 2, mz_interval |-> 1,
      min_mz |-> None, max_mz |-> 4, remove_precursor_tol |-> 500000,
      min_intensity |-> 1, max_peaks_used |-> 3, scaling |-> "off",
      cluster_charges |-> cc, cpu_core_preprocess |-> n] :
        cc \in {<<>>, <<2>>}, n \in {1, 2}}

Init ==
    /\ config \in Configs
    /\ input_files \in Directories
    /\ task = [i \in Indices(input_files) |-> "pending"]
    /\ task_result = [i \in Indices(input_files) |-> <<>>]
    /\ completed = <<>>
    /\ pc = "dispatch"
    /\ DataIdle
    /\ FilterIdle /\ PreIdle /\ CkpIdle

Running == {i \in Indices(task) : task[i] = "running"}

\* the pool hands the next file to a free worker
StartTask(i) ==
    /\ pc = "dispatch"
    /\ task[i] = "pending"
    /\ \A j \in 1..(i - 1) : task[j] # "pending"
    /\ Cardinality(Running) < config.cpu_core_preprocess
    /\ task' = [task EXCEPT ![i] = "running"]
    /\ UNCHANGED <<config, pc, input_files, task_result, completed,
                   dataVars, filterVars, preVars, ckpVars>>

\* load_process_single returns its list
TaskReturns(i) ==
    /\ pc = "dispatch"
    /\ task[i] = "running"
    /\ \E o \in load_process_single(input_files[i], config) :
        /\ ~o.failed
        /\ task_result' = [task_result EXCEPT ![i] = o.result]
    /\ task' = [task EXCEPT ![i] = "done"]
    /\ completed' = Append(completed, i)
    /\ UNCHANGED <<config, pc, input_files, dataVars, filterVars, preVars, ckpVars>>

\* load_process_single raises
TaskRaises(i) ==
    /\ pc = "dispatch"
    /\ task[i] = "running"
    /\ \E o \in load_process_single(input_files[i], config) : o.failed
    /\ task' = [task EXCEPT ![i] = "failed"]
    /\ completed' = Append(completed, i)
    /\ UNCHANGED <<config, pc, input_files, task_result, dataVars,
                   filterVars, preVars, ckpVars>>

\* the pool re-raises the exception of a task in the coordinator
PoolRaises ==
    /\ pc = "dispatch"
    /\ \E i \in Indices(task) : task[i] = "failed"
    /\ pc' = "raised"
    /\ UNCHANGED <<config, poolVars, dataVars, filterVars, preVars, ckpVars>>

AllDone == \A i \in Indices(task) : task[i] = "done"

\* lines 567-603 once every task has returned
AggregateReturns ==
    /\ pc = "dispatch"
    /\ AllDone
    /\ LET built == BuildDataset(Gather(task_result, completed))
           kept == ChargeFilter(built, config.cluster_charges)
           sorted == sort_spectra_meta_data(kept.meta, kept.mz, kept.intensity)
       IN  /\ ~ChargeFilterRaises(built, config.cluster_charges)
           /\ config' = [config EXCEPT !.cluster_charges =
                            ClusterChargesAfter(built, config.cluster_charges)]
           /\ spectra_meta_df' = sorted.meta
           /\ spectra_mz' = sorted.mz
           /\ spectra_intensity' = sorted.intensity
    /\ pc' = "returned"
    /\ UNCHANGED <<poolVars, filterVars, preVars, ckpVars>>

\* lines 567-592 when the charge filter raises IndexError
AggregateRaises ==
    /\ pc = "dispatch"
    /\ AllDone
    /\ ChargeFilterRaises(BuildDataset(Gather(task_result, completed)),
                          config.cluster_charges)
    /\ pc' = "raised"
    /\ UNCHANGED <<config, poolVars, dataVars, filterVars, preVars, ckpVars>>

Next ==
    \/ \E i \in Indices(input_files) : StartTask(i)
    \/ \E i \in Indices(input_files) : TaskReturns(i)
    \/ \E i \in Indices(input_files) : TaskRaises(i)
    \/ PoolRaises
    \/ AggregateReturns
    \/ AggregateRaises

Spec == Init /\ [][Next]_vars

----------------------------------------------------------------------------
(* Specification of save_checkpoint / load_checkpoint *)

\* A file holds the number of the save_checkpoint call that wrote it (0 for a
\* file left by an earlier run); the k-th call is handed the pair (meta k, hvs k).
InitCkp ==
    /\ ckp_parquet_file \in {None, 0}
    /\ ckp_hvs_file \in {None, 0}
    /\ saving = None
    /\ saves = 0
    /\ restored = <<>>
    /\ pc = "idle"
    /\ config = [checkpoint |-> "ckp"]
    /\ FilterIdle /\ PreIdle /\ PoolIdle /\ DataIdle

\* line 73: to_parquet overwrites the metadata file
SaveWritesMeta ==
    /\ saving = None
    /\ saves < MaxSaves
    /\ saves' = saves + 1
    /\ saving' = saves + 1
    /\ ckp_parquet_file' = saves + 1
    /\ UNCHANGED <<config, pc, ckp_hvs_file, restored,
                   filterVars, preVars, poolVars, dataVars>>

\* lines 74-75: np.save overwrites the array file
SaveWritesHvs ==
    /\ saving # None
    /\ ckp_hvs_file' = saving
    /\ saving' = None
    /\ UNCHANGED <<config, pc, ckp_parquet_file, saves, restored,
                   filterVars, preVars, poolVars, dataVars>>

\* the process stops between the two writes
SaveInterrupted ==
    /\ saving # None
    /\ saving' = None
    /\ UNCHANGED <<config, pc, ckp_parquet_file, ckp_hvs_file, saves, restored,
                   filterVars, preVars, poolVars, dataVars>>

\* a load that hands nothing over unless both files are there
load_checkpoint_both_or_nothing(parquet_file, hvs_file) ==
    IF parquet_file # None /\ hvs_file # None
    THEN <<parquet_file, hvs_file>> ELSE <<None, None>>

\* lines 34-50: each half is read when its file exists, else it is None
load_checkpoint(parquet_file, hvs_file) == <<parquet_file, hvs_file>>

LoadCheckpoint ==
    /\ saving = None
    /\ restored' = load_checkpoint(ckp_parquet_file, ckp_hvs_file)
    /\ UNCHANGED <<config, pc, ckp_parquet_file, ckp_hvs_file, saving, saves,
                   filterVars, preVars, poolVars, dataVars>>

NextCkp == SaveWritesMeta \/ SaveWritesHvs \/ SaveInterrupted \/ LoadCheckpoint

SpecCkp == InitCkp /\ [][NextCkp]_vars

----------------------------------------------------------------------------
(* Properties of get_intensity_mask / _filter_intensity (SpecFilter) *)

Retained == {i \in Indices(mask) : mask[i]}

\* C6: the retained peaks number at most max_num_peaks, each is among the
\* max_num_peaks most intense peaks of the input (fewer than max_num_peaks peaks
\* are strictly more intense), and each retained intensity is at least
\* min_intensity times the largest retained intensity.
C6_IntensityFilter ==
    pc = "masked" =>
        /\ Cardinality(Retained) <= config.max_peaks_used
        /\ \A i \in Retained :
            /\ Cardinality({j \in Indices(intensity) : intensity[j] > intensity[i]})
                    < config.max_peaks_used
            /\ \A j \in Retained :
                    100 * intensity[i] >= config.min_intensity * intensity[j]

\* a mask that kept a peak, dropped a selected peak by the threshold and left
\* a peak out of the selection
C6_Witness ==
    /\ pc = "masked"
    /\ Len(intensity) > config.max_peaks_used
    /\ Retained # {}
    /\ \E i \in top_intensity_idx : ~mask[i]

\* the indices of the base peak: the largest intensity of the whole array
BasePeaks == {i \in Indices(intensity) :
                \A j \in Indices(intensity) : intensity[i] >= intensity[j]}

\* C13: the selected indices include a base peak of the whole array, so the
\* largest selected intensity is the largest intensity of the array, and the
\* mask is the one the threshold min_intensity times the base peak gives on the
\* selected indices.
C13_ThresholdFromBasePeak ==
    pc = "masked" =>
        /\ top_intensity_idx \cap BasePeaks # {}
        /\ \A i \in top_intensity_idx : \A b \in BasePeaks :
                intensity[i] <= intensity[b]
        /\ \A i \in Indices(intensity) : \A b \in BasePeaks :
                mask[i] <=> (/\ i \in top_intensity_idx
                             /\ 100 * intensity[i] > config.min_intensity * intensity[b])

\* a selection that had to leave peaks out, from an array with a single base
\* peak and a smaller peak that stayed outside the selection
C13_Witness ==
    /\ pc = "masked"
    /\ Len(intensity) > config.max_peaks_used
    /\ Cardinality(BasePeaks) = 1
    /\ BasePeaks \subseteq top_intensity_idx
    /\ \E j \in Indices(intensity) \ top_intensity_idx :
            \A b \in BasePeaks : intensity[j] < intensity[b]
    /\ config.min_intensity > 0

----------------------------------------------------------------------------
(* Properties of preprocess_read_spectra_list (SpecPre) *)

\* C3 as claimed: a spectrum whose vector has norm zero at the normalisation
\* step ends as a rejected spectrum, without an exception and without
\* undefined intensities.
C3_ZeroNormRejected ==
    \A i \in Indices(iterations) :
        iterations[i].norm_sq = 0 => iterations[i].status = "invalid"

\* C5: with max_peaks_used set, every returned spectrum has m/z and intensity
\* arrays of length exactly max_peaks_used, a slot is -1 in one array iff it is
\* -1 in the other, and the peaks that survived the filter are all still there.
C5_Padding ==
    (pc = "returned" /\ config.max_peaks_used # None) =>
        \A i \in Indices(iterations) :
            iterations[i].status = "kept" =>
                LET s == iterations[i].spectrum
                    real == iterations[i].checked[Len(iterations[i].checked)]
                IN  /\ s \in {returned_list[k] : k \in Indices(returned_list)}
                    /\ Len(s.mz) = config.max_peaks_used
                    /\ Len(s.intensity) = config.max_peaks_used
                    /\ \A k \in 1..config.max_peaks_used :
                            (s.mz[k] = -1) <=> (s.intensity[k] = -1)
                    /\ Len(real) <= Len(s.mz)
                    /\ SubSeq(s.mz, 1, Len(real)) = real

\* a returned spectrum with a real peak first and a padded slot last
C5_Witness ==
    /\ pc = "returned"
    /\ \E k \in Indices(returned_list) :
        /\ returned_list[k].mz[1] # -1
        /\ returned_list[k].mz[Len(returned_list[k].mz)] = -1
        /\ returned_list[k].intensity[Len(returned_list[k].intensity)] = -1

ValidMz(mz) ==
    /\ Len(mz) >= config.min_peaks
    /\ Len(mz) > 0
    /\ mz[Len(mz)] - mz[1] >= config.min_mz_range

\* number of validity checks a spectrum has to pass
ChecksEnabled ==
    1 + (IF config.remove_precursor_tol # None THEN 1 ELSE 0)
      + (IF config.min_intensity # None \/ config.max_peaks_used # None THEN 1 ELSE 0)

PassesAll(it) ==
    /\ Len(it.checked) = ChecksEnabled
    /\ \A k \in Indices(it.checked) : ValidMz(it.checked[k])

\* C7: when the call returns, a spectrum is in the returned list iff its m/z
\* array passed every enabled validity check; a spectrum that failed a check
\* was left as it was at that check (no later check, no bucket), and a spectrum
\* with fewer peaks than min_peaks is never returned.
C7_ValidityGate ==
    pc = "returned" =>
        /\ Len(iterations) = Len(spectra_list)
        /\ \A i \in Indices(iterations) :
            LET it == iterations[i] IN
            /\ (\E k \in Indices(returned_list) :
                    returned_list[k].identifier = spectra_list[i].identifier)
                <=> PassesAll(it)
            /\ ~PassesAll(it) =>
                /\ ~ValidMz(it.checked[Len(it.checked)])
                /\ \A k \in 1..(Len(it.checked) - 1) : ValidMz(it.checked[k])
                /\ it.spectrum.mz = it.checked[Len(it.checked)]
                /\ it.spectrum.bucket = None
            /\ Len(spectra_list[i].mz) < config.min_peaks =>
                ~\E k \in Indices(returned_list) :
                    returned_list[k].identifier = spectra_list[i].identifier

\* a returned call that kept one spectrum and rejected the other at the check
\* after intensity filtering
C7_Witness ==
    /\ pc = "returned"
    /\ Len(returned_list) = 1
    /\ \E i \in Indices(iterations) :
        /\ iterations[i].status = "invalid"
        /\ Len(iterations[i].checked) = 3

----------------------------------------------------------------------------
(* Properties of load_process_spectra_parallel (Spec) *)

\* C1 as claimed: in the returned table every adjacent pair of rows is in
\* (precursor_charge, bucket) lexicographic order, charge first.
C1_SortedByChargeThenBucket ==
    pc = "returned" =>
        \A i \in 1..(Len(spectra_meta_df) - 1) :
            \/ spectra_meta_df[i].precursor_charge < spectra_meta_df[i + 1].precursor_charge
            \/ /\ spectra_meta_df[i].precursor_charge = spectra_meta_df[i + 1].precursor_charge
               /\ spectra_meta_df[i].bucket <= spectra_meta_df[i + 1].bucket

\* C4 as claimed: with no input file the call ends by returning an empty
\* dataset, whatever the configuration.
C4_NoFilesEmptyDataset ==
    (Len(input_files) = 0 /\ pc # "dispatch") =>
        /\ pc = "returned"
        /\ Len(spectra_meta_df) = 0
        /\ Len(spectra_mz.rows) = 0
        /\ Len(spectra_intensity.rows) = 0

\* the spectra the tasks returned
TaskSpectra ==
    UNION {{task_result[f][k] : k \in Indices(task_result[f])} : f \in Indices(task_result)}

\* C8: the returned table and both arrays have the same number of rows, no
\* spectrum occurs twice, and row i of each array holds the peaks of the
\* spectrum that row i of the table describes.
C8_RowsAligned ==
    pc = "returned" =>
        /\ Len(spectra_mz.rows) = Len(spectra_meta_df)
        /\ Len(spectra_intensity.rows) = Len(spectra_meta_df)
        /\ \A i, j \in Indices(spectra_meta_df) :
                spectra_meta_df[i].identifier = spectra_meta_df[j].identifier => i = j
        /\ \A i \in Indices(spectra_meta_df) :
            \E s \in TaskSpectra :
                /\ s.identifier = spectra_meta_df[i].identifier
                /\ s.bucket = spectra_meta_df[i].bucket
                /\ s.precursor_charge = spectra_meta_df[i].precursor_charge
                /\ s.mz = spectra_mz.rows[i]
                /\ s.intensity = spectra_intensity.rows[i]

\* a returned dataset from which the charge filter took a row and whose rows
\* the sort put in another order than the files had them
C8_Witness ==
    /\ pc = "returned"
    /\ Len(spectra_meta_df) >= 2
    /\ Len(spectra_meta_df) < Cardinality(TaskSpectra)
    /\ spectra_meta_df[1].identifier > spectra_meta_df[2].identifier
    /\ spectra_mz.rows[1] # spectra_mz.rows[2]

\* the rows a dataset must hold: the spectra of the files, file by file
ExpectedSpectra ==
    UNION {{o.result[k] : k \in Indices(o.result)} :
            o \in UNION {load_process_single(input_files[f], config) :
                            f \in Indices(input_files)}}

\* C9: the call returns only after every task has finished, and the returned
\* rows are the spectra of the files with an allowed charge in an order fixed
\* by the files alone: by the sort key, equal keys by file and then by
\* position in the file.
C9_OrderIndependentOfCompletion ==
    pc = "returned" =>
        /\ \A f \in Indices(task) : task[f] = "done"
        /\ Len(completed) = Len(input_files)
        /\ {spectra_meta_df[i].identifier : i \in Indices(spectra_meta_df)}
            = {s.identifier : s \in {e \in ExpectedSpectra :
                    InSeq(e.precursor_charge, config.cluster_charges)}}
        /\ \A i \in 1..(Len(spectra_meta_df) - 1) :
            LET r == spectra_meta_df[i]
                n == spectra_meta_df[i + 1]
            IN  (r.bucket = n.bucket /\ r.precursor_charge = n.precursor_charge)
                    => r.identifier < n.identifier

\* a dataset returned after the task of the second file finished first, with
\* two rows of equal sort key that come from different files
C9_Witness ==
    /\ pc = "returned"
    /\ Len(completed) >= 2
    /\ completed[1] > completed[2]
    /\ \E i \in 1..(Len(spectra_meta_df) - 1) :
        /\ spectra_meta_df[i].bucket = spectra_meta_df[i + 1].bucket
        /\ spectra_meta_df[i].precursor_charge = spectra_meta_df[i + 1].precursor_charge
        /\ spectra_meta_df[i].identifier \div 10 # spectra_meta_df[i + 1].identifier \div 10

\* C10: a dataset is returned only if no file failed: every file was parsed
\* and none holds a spectrum on which preprocessing raises; once a task has
\* failed no dataset is ever returned.
C10_FailFast ==
    /\ pc = "returned" =>
        \A f \in Indices(input_files) :
            /\ input_files[f].parse_ok
            /\ \A k \in Indices(input_files[f].spectra) :
                    Len(input_files[f].spectra[k].mz) > 0
    /\ (\E f \in Indices(task) : task[f] = "failed") => pc # "returned"

\* the call ended with the error of one file while another file had
\* returned spectra
C10_Witness ==
    /\ pc = "raised"
    /\ \E f \in Indices(task) : task[f] = "failed"
    /\ \E f \in Indices(task) : task[f] = "done" /\ Len(task_result[f]) > 0
    /\ Len(spectra_meta_df) = 0

\* the identifiers of the rows of a table
Identifiers(meta) == {meta[i].identifier : i \in Indices(meta)}

\* C12: the step that returns the dataset, taken with a non-empty
\* cluster_charges, returns one row for each spectrum of the tasks whose charge
\* is in cluster_charges, no other row, and leaves the configuration as it was;
\* taken with an empty cluster_charges it returns one row for every spectrum of
\* the tasks and sets cluster_charges to the charges of those spectra, each
\* listed once.
C12_GlobalChargeFilter ==
    [][(pc = "dispatch" /\ pc' = "returned") =>
        IF Len(config.cluster_charges) # 0
        THEN LET allowed == {s \in TaskSpectra :
                                \E c \in Indices(config.cluster_charges) :
                                    config.cluster_charges[c] = s.precursor_charge}
             IN  /\ Identifiers(spectra_meta_df') = {s.identifier : s \in allowed}
                 /\ Len(spectra_meta_df') = Cardinality(allowed)
                 /\ Len(spectra_mz'.rows) = Cardinality(allowed)
                 /\ Len(spectra_intensity'.rows) = Cardinality(allowed)
                 /\ config' = config
        ELSE /\ Identifiers(spectra_meta_df') = {s.identifier : s \in TaskSpectra}
             /\ Len(spectra_meta_df') = Cardinality(TaskSpectra)
             /\ Len(spectra_mz'.rows) = Cardinality(TaskSpectra)
             /\ Len(spectra_intensity'.rows) = Cardinality(TaskSpectra)
             /\ {config'.cluster_charges[c] : c \in Indices(config'.cluster_charges)}
                    = {s.precursor_charge : s \in TaskSpectra}
             /\ Len(config'.cluster_charges)
                    = Cardinality({s.precursor_charge : s \in TaskSpectra})
             /\ \A k \in DOMAIN config :
                    k # "cluster_charges" => config'[k] = config[k]
    ]_vars

\* a dataset returned under cluster_charges = [2] from tasks that produced a
\* spectrum of charge 1 and spectra of charge 2: the first is gone, the others
\* are all there
C12_Witness ==
    /\ pc = "returned"
    /\ config.cluster_charges = <<2>>
    /\ \E s \in TaskSpectra : s.precursor_charge = 1
    /\ Cardinality({s \in TaskSpectra : s.precursor_charge = 2}) >= 2
    /\ Len(spectra_meta_df) = Cardinality({s \in TaskSpectra : s.precursor_charge = 2})

\* a dataset returned after an empty cluster_charges was replaced by the two
\* charges of the spectra
C12_WitnessInferred ==
    /\ pc = "returned"
    /\ Len(config.cluster_charges) = 2
    /\ Len(spectra_meta_df) = Cardinality(TaskSpectra)

----------------------------------------------------------------------------
(* Properties of the checkpoint pair (SpecCkp) *)

\* C2 as claimed: load_checkpoint hands over the table and the array together
\* or neither of them.
C2_BothOrNothing ==
    restored # <<>> => ((restored[1] = None) <=> (restored[2] = None))

\* C11 as claimed: a load_checkpoint that finds both files returns a table and
\* an array that were handed to the same save_checkpoint call (or were left
\* together by the earlier run).
C11_PairFromOneSave ==
    (restored # <<>> /\ restored[1] # None /\ restored[2] # None)
        => restored[1] = restored[2]

====
